---- MODULE Spec2Model ----
(***************************************************************************)
(* Elite-Radar-React: the world-to-radar transform transformToRadarSpace   *)
(* (EliteRadar3D.jsx and its copy in EliteRadarDemo.jsx) and the RadarScene *)
(* component that maps it over a contacts list.                            *)
(*                                                                         *)
(* Numbers are JavaScript numbers modelled exactly: a finite number is a    *)
(* reduced fraction n/d, and NaN, +Infinity, -Infinity and undefined are    *)
(* values of their own with the IEEE-754 / ECMAScript rules for every       *)
(* operation.  An angle returned by Math.atan2 is kept as its (sin, cos)    *)
(* pair, so Math.sin and Math.cos of it are exact.  Inputs are drawn from   *)
(* the vectors whose square roots are rational, so that Math.sqrt is exact. *)
(* Rounding error and the sign of zero are not modelled.                    *)
(***************************************************************************)
EXTENDS Integers, Sequences, FiniteSets, TLC

\* ------------------------------------------------------------------ bounds
\* contact and player coordinates range over -MaxCoord..MaxCoord
MaxCoord == 4
\* longest contacts list handed to RadarScene
MaxContacts == 2
\* most ticks of the animation interval in a run
MaxTicks == 3

\* ------------------------------------------------------------ JS numbers
Abs(n) == IF n < 0 THEN -n ELSE n

RECURSIVE GCD(_, _)
GCD(a, b) == IF b = 0 THEN a ELSE GCD(b, a % b)

\* the finite number n/d (d # 0), reduced, sign in the numerator
Fin(n, d) ==
  LET g == GCD(Abs(n), Abs(d))
      s == IF d < 0 THEN -1 ELSE 1
  IN  [k |-> "fin", n |-> s * (n \div g), d |-> Abs(d) \div g]

Int2Num(i) == [k |-> "fin", n |-> i, d |-> 1]
NaN        == [k |-> "nan", n |-> 0, d |-> 1]
PosInf     == [k |-> "inf", n |-> 1, d |-> 1]
NegInf     == [k |-> "inf", n |-> -1, d |-> 1]
Undefined  == [k |-> "undef", n |-> 0, d |-> 1]
Zero       == Int2Num(0)
One        == Int2Num(1)

\* ToNumber(undefined) is NaN
ToNumber(a) == IF a.k = "undef" THEN NaN ELSE a

IsFinite(a) == a.k = "fin"
IsNaN(a)    == ToNumber(a).k = "nan"
\* -1, 0 or 1 for a finite or infinite number
Sign(a)     == IF a.n > 0 THEN 1 ELSE IF a.n < 0 THEN -1 ELSE 0
InfOf(s)    == IF s > 0 THEN PosInf ELSE NegInf

\* a + b
Add(x, y) ==
  LET a == ToNumber(x)
      b == ToNumber(y)
  IN  IF a.k = "nan" \/ b.k = "nan" THEN NaN
      ELSE IF a.k = "inf" /\ b.k = "inf" THEN (IF a.n = b.n THEN a ELSE NaN)
      ELSE IF a.k = "inf" THEN a
      ELSE IF b.k = "inf" THEN b
      ELSE Fin(a.n * b.d + b.n * a.d, a.d * b.d)

\* -a
Neg(x) ==
  LET a == ToNumber(x)
  IN  IF a.k = "nan" THEN NaN ELSE [a EXCEPT !.n = -a.n]

\* a - b
Sub(x, y) == Add(x, Neg(y))

\* a * b
Mul(x, y) ==
  LET a == ToNumber(x)
      b == ToNumber(y)
  IN  IF a.k = "nan" \/ b.k = "nan" THEN NaN
      ELSE IF a.k = "inf" \/ b.k = "inf"
           THEN (IF Sign(a) = 0 \/ Sign(b) = 0 THEN NaN ELSE InfOf(Sign(a) * Sign(b)))
      ELSE Fin(a.n * b.n, a.d * b.d)

\* a / b  (a zero divisor is +0)
Div(x, y) ==
  LET a == ToNumber(x)
      b == ToNumber(y)
  IN  IF a.k = "nan" \/ b.k = "nan" THEN NaN
      ELSE IF a.k = "inf"
           THEN (IF b.k = "inf" THEN NaN
                 ELSE InfOf(Sign(a) * (IF Sign(b) < 0 THEN -1 ELSE 1)))
      ELSE IF b.k = "inf" THEN Zero
      ELSE IF b.n = 0 THEN (IF a.n = 0 THEN NaN ELSE InfOf(Sign(a)))
      ELSE Fin(a.n * b.d, a.d * b.n)

\* a < b as JavaScript evaluates it (false when either side is NaN)
Less(x, y) ==
  LET a == ToNumber(x)
      b == ToNumber(y)
  IN  IF a.k = "nan" \/ b.k = "nan" THEN FALSE
      ELSE IF a.k = "inf" THEN a.n < 0 /\ b # a
      ELSE IF b.k = "inf" THEN b.n > 0
      ELSE a.n * b.d < b.n * a.d

\* a > b
Greater(x, y) == Less(y, x)

\* a <= b
LessEq(x, y) == Less(x, y) \/ (~IsNaN(x) /\ ToNumber(x) = ToNumber(y))

\* Math.min(a, b): NaN when either argument is NaN
MathMin(x, y) ==
  LET a == ToNumber(x)
      b == ToNumber(y)
  IN  IF a.k = "nan" \/ b.k = "nan" THEN NaN
      ELSE IF Less(b, a) THEN b ELSE a

IsSquare(n) == \E r \in 0..n : r * r = n
ISqrt(n)    == CHOOSE r \in 0..n : r * r = n

\* Math.sqrt is exact on a (the model draws its inputs where it is)
SqrtExact(x) ==
  LET a == ToNumber(x)
  IN  a.k = "fin" => (a.n >= 0 /\ IsSquare(a.n) /\ IsSquare(a.d))

\* Math.sqrt(a)
MathSqrt(x) ==
  LET a == ToNumber(x)
  IN  IF a.k = "nan" THEN NaN
      ELSE IF a.k = "inf" THEN (IF a.n > 0 THEN PosInf ELSE NaN)
      ELSE IF a.n < 0 THEN NaN
      ELSE Fin(ISqrt(a.n), ISqrt(a.d))

\* an angle as its sine and cosine
Angle(s, c) == [sin |-> s, cos |-> c]

\* Math.atan2(y, x) has a rational sine and cosine
Atan2Exact(y, x) ==
  LET a == ToNumber(y)
      b == ToNumber(x)
  IN  /\ ~(a.k = "inf" /\ b.k = "inf")
      /\ (a.k = "fin" /\ b.k = "fin") => SqrtExact(Add(Mul(a, a), Mul(b, b)))

\* MathAtan2 as the normalised vector (x, y), with no case for atan2(0, 0)
MathAtan2Normalised(y, x) ==
  LET a == ToNumber(y)
      b == ToNumber(x)
      r == MathSqrt(Add(Mul(a, a), Mul(b, b)))
  IN  IF a.k = "nan" \/ b.k = "nan" THEN Angle(NaN, NaN)
      ELSE IF a.k = "inf" THEN Angle(Int2Num(Sign(a)), Zero)
      ELSE IF b.k = "inf" THEN Angle(Zero, Int2Num(Sign(b)))
      ELSE Angle(Div(a, r), Div(b, r))

\* Math.atan2(y, x): the angle of the vector (x, y); atan2(0, 0) = 0,
\* atan2(+-Infinity, finite) = +-pi/2, atan2(finite, +Infinity) = 0,
\* atan2(y, -Infinity) = +-pi
MathAtan2(y, x) ==
  LET a == ToNumber(y)
      b == ToNumber(x)
      r == MathSqrt(Add(Mul(a, a), Mul(b, b)))
  IN  IF a.k = "nan" \/ b.k = "nan" THEN Angle(NaN, NaN)
      ELSE IF a.k = "inf" THEN Angle(Int2Num(Sign(a)), Zero)
      ELSE IF b.k = "inf" THEN Angle(Zero, Int2Num(Sign(b)))
      ELSE IF r = Zero THEN Angle(Zero, One)
      ELSE Angle(Div(a, r), Div(b, r))

\* Math.sin(angle), Math.cos(angle)
MathSin(t) == t.sin
MathCos(t) == t.cos

\* ------------------------------------------------------- three.js vectors
\* new THREE.Quaternion(x, y, z, w).invert(): the conjugate
QuaternionInvert(q) == <<Neg(q[1]), Neg(q[2]), Neg(q[3]), q[4]>>

\* new THREE.Vector3(x, y, z).applyQuaternion(q):
\* t = 2 * cross(q.xyz, v);  v + q.w * t + cross(q.xyz, t)
ApplyQuaternion(v, q) ==
  LET Two == Int2Num(2)
      tx == Mul(Two, Sub(Mul(q[2], v[3]), Mul(q[3], v[2])))
      ty == Mul(Two, Sub(Mul(q[3], v[1]), Mul(q[1], v[3])))
      tz == Mul(Two, Sub(Mul(q[1], v[2]), Mul(q[2], v[1])))
  IN  << Sub(Add(Add(v[1], Mul(q[4], tx)), Mul(q[2], tz)), Mul(q[3], ty)),
         Sub(Add(Add(v[2], Mul(q[4], ty)), Mul(q[3], tx)), Mul(q[1], tz)),
         Sub(Add(Add(v[3], Mul(q[4], tz)), Mul(q[1], ty)), Mul(q[2], tx)) >>

\* ---------------------------------------------------- transformToRadarSpace
\* HeightFactor with the vertical component left unscaled
HeightFactorOne == One

\* the literal 0.5 that scales the vertical component
HeightFactor == Fin(1, 2)

\* the value of a call that threw (TypeError: contact.position is undefined)
Threw == [threw |-> TRUE]

\* RelativePosition with the player's position ignored
RelativePositionFromOrigin(contact, options) == contact.position

\* contact.position[i] - playerPosition[i]
RelativePosition(contact, options) ==
  << Sub(contact.position[1], options.playerPosition[1]),
     Sub(contact.position[2], options.playerPosition[2]),
     Sub(contact.position[3], options.playerPosition[3]) >>

\* LocalPosition with the rotation skipped for a quaternion of negative w
LocalPositionPositiveW(contact, options) ==
  IF options.shipRelative /\ ~Less(options.playerQuaternion[4], Zero)
    THEN ApplyQuaternion(RelativePosition(contact, options),
                         QuaternionInvert(options.playerQuaternion))
    ELSE RelativePosition(contact, options)

\* LocalPosition rotated whatever shipRelative says
LocalPositionAlwaysRotated(contact, options) ==
  ApplyQuaternion(RelativePosition(contact, options),
                  QuaternionInvert(options.playerQuaternion))

\* the relative position after the optional rotation into the ship's frame
LocalPosition(contact, options) ==
  IF options.shipRelative
    THEN ApplyQuaternion(RelativePosition(contact, options),
                         QuaternionInvert(options.playerQuaternion))
    ELSE RelativePosition(contact, options)

\* Distance with the vertical term forgotten
DistanceNoY(rel) == MathSqrt(Add(Mul(rel[1], rel[1]), Mul(rel[3], rel[3])))

\* Math.sqrt(relX * relX + relY * relY + relZ * relZ)
Distance(rel) ==
  MathSqrt(Add(Add(Mul(rel[1], rel[1]), Mul(rel[2], rel[2])), Mul(rel[3], rel[3])))

\* Math.sqrt(relX * relX + relZ * relZ)
HorizontalDist(rel) == MathSqrt(Add(Mul(rel[1], rel[1]), Mul(rel[3], rel[3])))

\* NormalizedDist without the clamp to 1
NormalizedDistUnclamped(rel, maxRange) == Div(Distance(rel), maxRange)

\* Math.min(distance / maxRange, 1)
NormalizedDist(rel, maxRange) == MathMin(Div(Distance(rel), maxRange), One)

\* the returned fields with the base point left at the marker's height
RadarPointBaseNotFlattened(radarX, radarY, radarZ, normalizedDist) ==
  [ radarPosition      |-> <<radarX, radarY, radarZ>>,
    basePosition       |-> <<radarX, radarY, radarZ>>,
    normalizedDistance |-> normalizedDist ]

\* radarPosition: [radarX, radarY, radarZ], basePosition: [radarX, 0, radarZ],
\* normalizedDistance: normalizedDist
RadarPoint(radarX, radarY, radarZ, normalizedDist) ==
  [ radarPosition      |-> <<radarX, radarY, radarZ>>,
    basePosition       |-> <<radarX, Zero, radarZ>>,
    normalizedDistance |-> normalizedDist ]

\* MapToRadar with sine and cosine of the azimuth exchanged
MapToRadarSwappedAxes(normalizedDist, theta, phi, radarRadius) ==
  RadarPoint(Mul(Mul(normalizedDist, radarRadius), MathCos(theta)),
             Mul(Mul(Mul(normalizedDist, MathSin(phi)), radarRadius), HeightFactor),
             Mul(Mul(normalizedDist, radarRadius), MathSin(theta)),
             normalizedDist)

\* MapToRadar as a point of the sphere: the horizontal distance shortened by
\* the cosine of the elevation
MapToRadarOnSphere(normalizedDist, theta, phi, radarRadius) ==
  RadarPoint(Mul(Mul(Mul(normalizedDist, radarRadius), MathCos(phi)), MathSin(theta)),
             Mul(Mul(Mul(normalizedDist, MathSin(phi)), radarRadius), HeightFactor),
             Mul(Mul(Mul(normalizedDist, radarRadius), MathCos(phi)), MathCos(theta)),
             normalizedDist)

\* "Map to radar coordinates": radarHorizontalDist = normalizedDist * radarRadius,
\* radarX = radarHorizontalDist * sin(theta), radarZ = radarHorizontalDist * cos(theta),
\* radarY = normalizedDist * sin(phi) * radarRadius * 0.5
MapToRadar(normalizedDist, theta, phi, radarRadius) ==
  RadarPoint(Mul(Mul(normalizedDist, radarRadius), MathSin(theta)),
             Mul(Mul(Mul(normalizedDist, MathSin(phi)), radarRadius), HeightFactor),
             Mul(Mul(normalizedDist, radarRadius), MathCos(theta)),
             normalizedDist)

\* Theta with the arguments of atan2 exchanged
ThetaArgumentsExchanged(rel) == MathAtan2(rel[3], rel[1])

\* theta = Math.atan2(relX, relZ): the azimuth, measured from the +z axis
Theta(rel) == MathAtan2(rel[1], rel[3])

\* Phi with the arguments of atan2 exchanged
PhiArgumentsExchanged(rel) == MathAtan2(HorizontalDist(rel), rel[2])

\* phi = Math.atan2(relY, horizontalDist): the elevation
Phi(rel) == MathAtan2(rel[2], HorizontalDist(rel))

\* distance, angles and radar coordinates of the relative position rel
Project(rel, maxRange, radarRadius) ==
  MapToRadar(NormalizedDist(rel, maxRange), Theta(rel), Phi(rel), radarRadius)

\* Returned with the selected flag cleared after the spread
ReturnedDeselected(contact, projected, isAbove) ==
  ((projected @@ [isAbove |-> isAbove, threw |-> FALSE, selected |-> FALSE])) @@ contact

\* the spread of the contact with the computed fields over it
Returned(contact, projected, isAbove) ==
  (projected @@ [isAbove |-> isAbove, threw |-> FALSE]) @@ contact

\* the same without isAbove
ReturnedDemo(contact, projected) == (projected @@ [threw |-> FALSE]) @@ contact

\* TransformRel drawn on a radar of radius 1 whatever radarRadius is
TransformRelUnitRadius(contact, rel, options) ==
  Returned(contact, Project(rel, options.maxRange, One), Greater(rel[2], Zero))

\* the transform on the relative position rel
TransformRel(contact, rel, options) ==
  Returned(contact, Project(rel, options.maxRange, options.radarRadius),
           Greater(rel[2], Zero))

\* the value of option name after the destructuring with defaults
OptionOr(options, name, default) ==
  IF name \in DOMAIN options THEN options[name] ELSE default

\* const { playerPosition = [0, 0, 0], playerQuaternion = [0, 0, 0, 1],
\*         maxRange = 5000, radarRadius = 1, shipRelative = true } = options
Destructured(options) ==
  [ playerPosition   |-> OptionOr(options, "playerPosition", <<Zero, Zero, Zero>>),
    playerQuaternion |-> OptionOr(options, "playerQuaternion", <<Zero, Zero, Zero, One>>),
    maxRange         |-> OptionOr(options, "maxRange", Int2Num(5000)),
    radarRadius      |-> OptionOr(options, "radarRadius", One),
    shipRelative     |-> OptionOr(options, "shipRelative", TRUE) ]

\* the body of the transform after the destructuring
TransformDestructured(contact, options) ==
  TransformRel(contact, LocalPosition(contact, options), options)

\* transformToRadarSpace(contact, options) of EliteRadar3D.jsx
transformToRadarSpace(contact, options) ==
  IF ~contact.hasPosition THEN Threw
  ELSE TransformDestructured(contact, Destructured(options))

\* transformToRadarSpace(contact, options) of EliteRadarDemo.jsx:
\* no player position, no rotation, no isAbove
transformToRadarSpaceDemo(contact, options) ==
  IF ~contact.hasPosition THEN Threw
  ELSE ReturnedDemo(contact,
                    Project(contact.position, options.maxRange, options.radarRadius))

\* ContactAfterTransform with the relative position written into the contact
ContactAfterTransformInPlace(contact, options) ==
  IF contact.hasPosition
    THEN [contact EXCEPT !.position = RelativePosition(contact, Destructured(options))]
    ELSE contact

\* what the contact object passed in holds after the call: no statement of the
\* transform assigns to contact, to contact.position or to an element of it
ContactAfterTransform(contact, options) == contact

\* ------------------------------------------------------------------ inputs
Coord == -MaxCoord..MaxCoord

Vec(x, y, z) == <<Int2Num(x), Int2Num(y), Int2Num(z)>>

\* finite positions
FinitePositions == {Vec(x, y, z) : x \in Coord, y \in Coord, z \in Coord}

\* positions with a NaN, infinite or missing component
MalformedPositions ==
  LET bad == {NaN, PosInf, NegInf, Undefined}
  IN  UNION { {<<b, v[2], v[3]>>, <<v[1], b, v[3]>>, <<v[1], v[2], b>>} :
              v \in {Vec(0, 0, 0), Vec(3, 0, 4)}, b \in bad }

\* a contact record; hasPosition is false for a record without a position
Contact(id, position, type, selected) ==
  [id |-> id, position |-> position, type |-> type, selected |-> selected,
   hasPosition |-> TRUE]

\* a contact record that has no position property
ContactWithoutPosition(id, type, selected) ==
  [id |-> id, position |-> <<Undefined, Undefined, Undefined>>, type |-> type,
   selected |-> selected, hasPosition |-> FALSE]

\* player positions: the origin, a point ahead, and a NaN position
PlayerPositions == {Vec(0, 0, 0), Vec(0, 0, 3), <<NaN, Zero, Zero>>}

\* unit quaternions [x, y, z, w] with rational components: the identity,
\* a yaw of 2*atan(3/4) about the vertical axis, and a half turn about x
IdentityQuaternion == <<Zero, Zero, Zero, One>>
Quaternions ==
  { IdentityQuaternion,
    <<Zero, Fin(3, 5), Zero, Fin(4, 5)>>,
    <<One, Zero, Zero, Zero>> }

MaxRanges  == {Int2Num(-4), Zero, Int2Num(2), Int2Num(4), NaN}
RadarRadii == {Zero, One, Int2Num(2)}

Options(playerPosition, playerQuaternion, maxRange, radarRadius, shipRelative) ==
  [playerPosition |-> playerPosition, playerQuaternion |-> playerQuaternion,
   maxRange |-> maxRange, radarRadius |-> radarRadius, shipRelative |-> shipRelative]

\* every square root and angle of the projection of rel is rational
ExactRel(rel) ==
  /\ SqrtExact(Add(Add(Mul(rel[1], rel[1]), Mul(rel[2], rel[2])), Mul(rel[3], rel[3])))
  /\ SqrtExact(Add(Mul(rel[1], rel[1]), Mul(rel[3], rel[3])))
  /\ Atan2Exact(rel[1], rel[3])
  /\ Atan2Exact(rel[2], HorizontalDist(rel))

\* both copies of the transform are exact on (contact, options)
Exact(contact, options) ==
  /\ ExactRel(contact.position)
  /\ ExactRel(RelativePosition(contact, options))
  /\ ExactRel(LocalPosition(contact, options))

\* ------------------------------------------------------------------- state
VARIABLES
  argContact,    \* the contact passed to transformToRadarSpace
  argOptions,    \* the options passed to transformToRadarSpace
  result,        \* what the EliteRadar3D.jsx copy returned
  demoResult,    \* what the EliteRadarDemo.jsx copy returned
  file,          \* the source file whose RadarScene is running
  sceneStatus,   \* "unmounted", "rendered", or "threw" once a render has thrown
  sceneProps,    \* the props of the latest render of RadarScene
  memo,          \* the useMemo cell of RadarScene: dependencies and value
  radarContacts, \* the radarContacts of the latest render
  rendered,      \* the RadarContact elements of the latest render
  appStatus,     \* EliteRadar3D: "absent", "unmounted" or "mounted"
  themeName,     \* the themeName state of EliteRadar3D
  contacts,      \* the contacts state of EliteRadar3D
  contactsRef,   \* the array object the contacts state is: "demoContacts" or "mapped"
  interval,      \* the interval of the effect: "none", "running" or "cleared"
  ticks,         \* how many times the interval callback has run
  appProps,      \* the props the caller passes to <EliteRadar3D />
  intervalsStarted, \* how often the mounted component has called setInterval
  heap           \* what the demoContacts array and the array that was the state
                 \* before the latest tick hold now

transformVars == <<argContact, argOptions, result, demoResult>>
sceneVars     == <<file, sceneStatus, sceneProps, memo, radarContacts, rendered>>
appVars       == <<appStatus, themeName, contacts, contactsRef, interval, ticks, heap,
                   appProps, intervalsStarted>>
vars          == <<transformVars, sceneVars, appVars>>

\* no call has been made yet
NotCalled == [pending |-> TRUE]

\* const demoContacts = [...]
demoContacts ==
  << Contact("hostile-1", Vec(2000, 800, 1500), "hostile", FALSE),
     Contact("hostile-2", Vec(-1500, 400, 2000), "hostile", FALSE),
     Contact("friendly-1", Vec(1000, -300, -800), "friendly", FALSE),
     Contact("friendly-2", Vec(-500, 200, -1200), "friendly", FALSE),
     Contact("neutral-1", Vec(3000, 100, 500), "neutral", FALSE),
     Contact("neutral-2", Vec(-2500, -600, -500), "neutral", FALSE),
     Contact("station-1", Vec(0, 0, -4000), "station", TRUE),
     Contact("missile-1", Vec(800, 1200, 400), "missile", FALSE),
     Contact("missile-2", Vec(-600, -400, 800), "missile", FALSE) >>

\* <EliteRadar3D /> without props
NoAppProps == [given |-> FALSE]

\* the array of the README's usage example
radarData ==
  << [id |-> "1", x |-> 100, y |-> 50, z |-> 25, type |-> "ally"],
     [id |-> "2", x |-> -80, y |-> 120, z |-> -10, type |-> "enemy"] >>

\* the props a caller passes: none, the README's example, or an empty list
\* with the documented default range
AppPropsGiven ==
  { NoAppProps,
    [given |-> TRUE, objects |-> radarData, range |-> Int2Num(200)],
    [given |-> TRUE, objects |-> <<>>, range |-> Int2Num(100)] }

\* no EliteRadar3D component
AppAbsent ==
  /\ appStatus = "absent"
  /\ themeName = "eliteClassic"
  /\ contacts = <<>>
  /\ contactsRef = "none"
  /\ interval = "none"
  /\ ticks = 0
  /\ heap = [demoContacts |-> demoContacts, prev |-> <<>>]
  /\ appProps = NoAppProps
  /\ intervalsStarted = 0

\* --------------------------------------------------------------- RadarScene
MainFile == "EliteRadar3D.jsx"
DemoFile == "EliteRadarDemo.jsx"

\* the part of the themes table that RadarContact reads
themes ==
  [ eliteClassic |->
      [ stalk    |-> [opacity |-> Fin(3, 5)],
        contacts |-> [hostile |-> "#ff3333", friendly |-> "#33ff88", neutral |-> "#ffff33",
                      station |-> "#00ffff", missile |-> "#ff00ff", default |-> "#ffffff"] ],
    eliteDangerous |->
      [ stalk    |-> [opacity |-> Fin(1, 2)],
        contacts |-> [hostile |-> "#ff4444", friendly |-> "#44ff66", neutral |-> "#ff9900",
                      station |-> "#4499ff", missile |-> "#ff44ff", default |-> "#ffffff"] ] ]

ThemeNames == DOMAIN themes

\* the theme names a caller passes to RadarScene: a key of themes and the
\* README's 'dark', which is no key (EliteRadar3D.jsx then draws eliteClassic)
SceneThemeNames == {"eliteDangerous", "dark"}

\* the scene has not been mounted
NoProps == [none |-> TRUE]
NoMemo  == [empty |-> TRUE]

SceneIdle ==
  /\ file = MainFile
  /\ sceneStatus = "unmounted"
  /\ sceneProps = NoProps
  /\ memo = NoMemo
  /\ radarContacts = <<>>
  /\ rendered = <<>>

\* the copy of transformToRadarSpace that RadarScene of file f calls
TransformOf(f, contact, options) ==
  IF f = MainFile THEN transformToRadarSpace(contact, options)
                  ELSE transformToRadarSpaceDemo(contact, options)

\* the options object RadarScene builds from its props
SceneOptions(props) ==
  Options(props.playerPosition, props.playerQuaternion, props.maxRange,
          props.radarRadius, props.shipRelative)

\* the value of a map over results rs: aborted by the first call that threw
MapValue(rs) ==
  IF \E i \in 1..Len(rs) : rs[i].threw THEN [threw |-> TRUE, value |-> <<>>]
                                       ELSE [threw |-> FALSE, value |-> rs]

\* the results at the indices ix, in order
RECURSIVE Pick(_, _)
Pick(rs, ix) == IF ix = <<>> THEN <<>> ELSE <<rs[Head(ix)]>> \o Pick(rs, Tail(ix))

\* the indices 1..n whose result is not pinned to the edge
RECURSIVE InRangeIndices(_, _)
InRangeIndices(rs, i) ==
  IF i > Len(rs) THEN <<>>
  ELSE (IF rs[i].threw \/ rs[i].normalizedDistance # One THEN <<i>> ELSE <<>>)
       \o InRangeIndices(rs, i + 1)

\* a map that omits the contacts at or beyond maxRange
MapDroppingOutOfRange(f, cs, options) ==
  MapValue(Pick([i \in 1..Len(cs) |-> TransformOf(f, cs[i], options)],
                InRangeIndices([i \in 1..Len(cs) |-> TransformOf(f, cs[i], options)], 1)))

\* contacts.map(contact => transformToRadarSpace(contact, {...})): one result
\* per contact, in order; a call that throws aborts the map
MapTransform(f, cs, options) ==
  MapValue([i \in 1..Len(cs) |-> TransformOf(f, cs[i], options)])

\* the useMemo dependency list with the contacts only
MemoDepsContactsOnly(f, props) == <<props.contacts>>

\* the useMemo dependency list without maxRange
MemoDepsWithoutMaxRange(f, props) ==
  IF f = MainFile
    THEN <<props.contacts, props.playerPosition, props.playerQuaternion,
           props.radarRadius, props.shipRelative>>
    ELSE <<props.contacts, props.radarRadius>>

\* the useMemo dependency list of RadarScene
MemoDeps(f, props) ==
  IF f = MainFile
    THEN <<props.contacts, props.playerPosition, props.playerQuaternion,
           props.maxRange, props.radarRadius, props.shipRelative>>
    ELSE <<props.contacts, props.maxRange, props.radarRadius>>

\* the cell after the factory ran with outcome m
Recomputed(deps, m) == [threw |-> m.threw, deps |-> deps, value |-> m.value]

\* useMemo: the factory runs on the first render, when a dependency changed, or
\* when the caller passed newly allocated arrays (compared with Object.is);
\* otherwise the stored value is returned
UseMemo(f, cell, props, newArrays) ==
  IF cell = NoMemo \/ newArrays \/ cell.deps # MemoDeps(f, props)
    THEN Recomputed(MemoDeps(f, props),
                    MapTransform(f, props.contacts, SceneOptions(props)))
    ELSE [threw |-> FALSE, deps |-> cell.deps, value |-> cell.value]

\* themes[themeName] of a name that is no key of themes: undefined
NoTheme == [missing |-> TRUE]

\* the geometry ContactMarker draws: the switch with a default branch in
\* EliteRadar3D.jsx, one conditional child per known type in EliteRadarDemo.jsx
ContactMarkerGeometry(f, type) ==
  IF type \in {"hostile", "friendly"} THEN "box"
  ELSE IF type = "station" THEN "largeBox"
  ELSE IF type = "missile" THEN "cone"
  ELSE IF f = MainFile \/ type = "neutral" THEN "sphere"
  ELSE "none"

\* themes[themeName] || themes.eliteClassic in EliteRadar3D.jsx,
\* themes[themeName] in EliteRadarDemo.jsx
SceneTheme(f, name) ==
  IF name \in DOMAIN themes THEN themes[name]
  ELSE IF f = MainFile THEN themes.eliteClassic ELSE NoTheme

\* theme.contacts[type] || theme.contacts.default
ContactColor(theme, type) ==
  IF type \in DOMAIN theme.contacts THEN theme.contacts[type] ELSE theme.contacts.default

\* <RadarContact contact theme />: a stalk, a base point and a marker
RadarContact(contact, theme) ==
  LET color == ContactColor(theme, contact.type)
  IN  [ stalk     |-> [start |-> contact.basePosition, end |-> contact.radarPosition,
                       color |-> color, opacity |-> theme.stalk.opacity],
        basePoint |-> [position |-> contact.basePosition, color |-> color],
        marker    |-> [position |-> contact.radarPosition, type |-> contact.type,
                       selected |-> contact.selected, color |-> color] ]

\* key={contact.id || index}
ElementKey(contact, index) == IF contact.id = "" THEN ToString(index) ELSE contact.id

\* radarContacts.map((contact, index) => <RadarContact key=... />)
RenderContacts(f, rcs, theme) ==
  [i \in 1..Len(rcs) |->
     [key |-> ElementKey(rcs[i], i - 1), geometry |-> ContactMarkerGeometry(f, rcs[i].type)]
       @@ RadarContact(rcs[i], theme)]

\* one render of RadarScene with props p; a render that throws unmounts the
\* tree (there is no error boundary), leaving no memo cell and no elements
RenderScene(p, newArrays) ==
  \E cell \in {UseMemo(file, memo, p, newArrays)} :
    /\ sceneStatus # "threw"
    /\ sceneProps' = p
    /\ IF cell.threw \/ SceneTheme(file, p.themeName) = NoTheme
         THEN /\ sceneStatus' = "threw"
              /\ memo' = NoMemo
              /\ radarContacts' = <<>>
              /\ rendered' = <<>>
         ELSE /\ sceneStatus' = "rendered"
              /\ memo' = [deps |-> cell.deps, value |-> cell.value]
              /\ radarContacts' = cell.value
              /\ rendered' = RenderContacts(file, cell.value, SceneTheme(file, p.themeName))
    /\ UNCHANGED <<file, transformVars, appVars>>

\* the contacts the scene is given
ContactPool ==
  { Contact("hostile-1", Vec(4, 0, 3), "hostile", FALSE),
    Contact("asteroid-1", Vec(0, 4, 3), "asteroid", FALSE),
    Contact("station-1", Vec(0, 0, 1), "station", TRUE),
    Contact("neutral-1", <<NaN, Zero, Zero>>, "neutral", FALSE),
    ContactWithoutPosition("missile-1", "missile", FALSE) }

\* lists of at most MaxContacts contacts with distinct ids
ContactLists ==
  UNION { { cs \in [1..n -> ContactPool] :
              \A i, j \in 1..n : cs[i].id = cs[j].id => i = j } : n \in 0..MaxContacts }

ScenePlayerPositions == {Vec(0, 0, 0), Vec(0, 0, 3)}
SceneQuaternions     == {IdentityQuaternion, <<Zero, Fin(3, 5), Zero, Fin(4, 5)>>}
SceneMaxRanges       == {Int2Num(2), Int2Num(4)}
SceneRadarRadii      == {One, Int2Num(2)}

\* the first render
Mount ==
  /\ sceneStatus = "unmounted"
  /\ \E cs \in ContactLists, m \in SceneMaxRanges, r \in SceneRadarRadii, t \in SceneThemeNames :
       RenderScene([contacts |-> cs, maxRange |-> m, radarRadius |-> r,
                    playerPosition |-> Vec(0, 0, 0),
                    playerQuaternion |-> IdentityQuaternion,
                    shipRelative |-> TRUE, themeName |-> t], TRUE)

\* the parent renders the scene again with a new contacts array
SetContacts ==
  /\ sceneStatus = "rendered"
  /\ \E cs \in ContactLists : RenderScene([sceneProps EXCEPT !.contacts = cs], TRUE)

\* the parent renders the scene again with another maxRange or radarRadius, the
\* arrays being the same objects or new ones
SetScale ==
  /\ sceneStatus = "rendered"
  /\ \E m \in SceneMaxRanges, r \in SceneRadarRadii, newArrays \in BOOLEAN :
       RenderScene([sceneProps EXCEPT !.maxRange = m, !.radarRadius = r], newArrays)

\* the parent renders the scene again with another player position, orientation
\* or shipRelative (props of the EliteRadar3D.jsx scene only)
SetPlayer ==
  /\ sceneStatus = "rendered"
  /\ file = MainFile
  /\ \E pp \in ScenePlayerPositions, q \in SceneQuaternions, sr \in BOOLEAN :
       RenderScene([sceneProps EXCEPT !.playerPosition = pp, !.playerQuaternion = q,
                                      !.shipRelative = sr], TRUE)

\* the parent renders the scene again with another theme
SetTheme ==
  /\ sceneStatus = "rendered"
  /\ \E t \in SceneThemeNames, newArrays \in BOOLEAN :
       RenderScene([sceneProps EXCEPT !.themeName = t], newArrays)

InitScene ==
  /\ argContact = Contact("c1", Vec(0, 0, 0), "hostile", FALSE)
  /\ argOptions = Options(Vec(0, 0, 0), IdentityQuaternion, One, One, TRUE)
  /\ result = NotCalled
  /\ demoResult = NotCalled
  /\ file \in {MainFile, DemoFile}
  /\ sceneStatus = "unmounted"
  /\ sceneProps = NoProps
  /\ memo = NoMemo
  /\ radarContacts = <<>>
  /\ rendered = <<>>
  /\ AppAbsent

NextScene == Mount \/ SetContacts \/ SetScale \/ SetPlayer \/ SetTheme

SpecScene == InitScene /\ [][NextScene]_vars

\* ------------------------------------------------------------- EliteRadar3D
\* values Math.random() returns, in [0, 1)
Randoms == <<Zero, Fin(1, 2), Fin(99, 100)>>

\* the sequences of values the calls of Math.random() in one tick return
RandomStreams == 0..2

\* the n-th value of Math.random() in a tick of the given stream
MathRandom(stream, n) == Randoms[((stream + n + (n \div 3)) % 3) + 1]

\* the multipliers of (Math.random() - 0.5) for x, y and z
Spans(f) ==
  IF f = MainFile THEN <<Int2Num(100), Int2Num(50), Int2Num(100)>>
                  ELSE <<Int2Num(80), Int2Num(40), Int2Num(80)>>

\* Moved without the - 0.5 that centres the step
MovedUncentred(f, contact, stream, i) ==
  [c \in 1..3 |->
     Add(contact.position[c], Mul(MathRandom(stream, 3 * (i - 1) + (c - 1)), Spans(f)[c]))]

\* contact.position[c] + (Math.random() - 0.5) * span
Moved(f, contact, stream, i) ==
  [c \in 1..3 |->
     Add(contact.position[c],
         Mul(Sub(MathRandom(stream, 3 * (i - 1) + (c - 1)), Fin(1, 2)), Spans(f)[c]))]

\* prev.map(contact => ({...contact, position: [...]}))
MoveAll(f, prev, stream) ==
  [i \in 1..Len(prev) |-> [prev[i] EXCEPT !.position = Moved(f, prev[i], stream, i)]]

\* HeapAfterTick with the new positions written into the elements of prev
HeapAfterTickInPlace(h, ref, prev, next) ==
  [demoContacts |-> IF ref = "demoContacts" THEN next ELSE h.demoContacts, prev |-> next]

\* what the arrays hold after the updater has run: map returns a new array of
\* new objects with new position arrays, and nothing is assigned to prev, to
\* an element of prev or to a position array
HeapAfterTick(h, ref, prev, next) == [demoContacts |-> h.demoContacts, prev |-> prev]

\* the first render: useState('eliteClassic'), useState(demoContacts), and the
\* effect starting the interval
MountApp ==
  /\ appStatus = "unmounted"
  /\ appStatus' = "mounted"
  /\ themeName' = "eliteClassic"
  /\ contacts' = heap.demoContacts
  /\ contactsRef' = "demoContacts"
  /\ interval' = "running"
  /\ intervalsStarted' = 1
  /\ UNCHANGED <<ticks, heap, appProps, transformVars, sceneVars>>

\* the interval callback: setContacts(prev => prev.map(...)); the render that
\* follows does not run the effect again (dependency list [])
Tick ==
  /\ interval = "running"
  /\ ticks < MaxTicks
  /\ \E stream \in RandomStreams :
       /\ contacts' = MoveAll(file, contacts, stream)
       /\ heap' = HeapAfterTick(heap, contactsRef, contacts, MoveAll(file, contacts, stream))
  /\ contactsRef' = "mapped"
  /\ ticks' = ticks + 1
  /\ UNCHANGED <<appStatus, themeName, interval, appProps, intervalsStarted,
                 transformVars, sceneVars>>

\* NextThemeName going through a third theme name
NextThemeNameOfThree(t) ==
  IF t = "eliteClassic" THEN "eliteDangerous"
  ELSE IF t = "eliteDangerous" THEN "eliteRetro" ELSE "eliteClassic"

\* t => t === 'eliteClassic' ? 'eliteDangerous' : 'eliteClassic'
NextThemeName(t) == IF t = "eliteClassic" THEN "eliteDangerous" ELSE "eliteClassic"

\* the theme button: setThemeName(t => ...); the render that follows does not
\* run the effect again
ToggleTheme ==
  /\ appStatus = "mounted"
  /\ themeName' = NextThemeName(themeName)
  /\ UNCHANGED <<appStatus, contacts, contactsRef, interval, ticks, heap,
                 appProps, intervalsStarted, transformVars, sceneVars>>

\* IntervalAfterCleanup of an effect that returns no cleanup
IntervalLeftRunning(i) == i

\* return () => clearInterval(interval)
IntervalAfterCleanup(i) == "cleared"

\* the component is removed: the effect's cleanup clears the interval and the
\* state is dropped
UnmountApp ==
  /\ appStatus = "mounted"
  /\ appStatus' = "unmounted"
  /\ interval' = IntervalAfterCleanup(interval)
  /\ themeName' = "eliteClassic"
  /\ contacts' = <<>>
  /\ contactsRef' = "none"
  /\ intervalsStarted' = 0
  /\ UNCHANGED <<ticks, heap, appProps, transformVars, sceneVars>>

\* the props of the <RadarScene /> element EliteRadar3D renders
SceneElement ==
  IF file = MainFile
    THEN [contacts |-> contacts, maxRange |-> Int2Num(5000), radarRadius |-> One,
          playerPosition |-> Vec(0, 0, 0), playerQuaternion |-> IdentityQuaternion,
          shipRelative |-> TRUE, themeName |-> themeName]
    ELSE [contacts |-> contacts, maxRange |-> Int2Num(5000), radarRadius |-> One,
          themeName |-> themeName]

InitApp ==
  /\ argContact = Contact("c1", Vec(0, 0, 0), "hostile", FALSE)
  /\ argOptions = Options(Vec(0, 0, 0), IdentityQuaternion, One, One, TRUE)
  /\ result = NotCalled
  /\ demoResult = NotCalled
  /\ file \in {MainFile, DemoFile}
  /\ sceneStatus = "unmounted"
  /\ sceneProps = NoProps
  /\ memo = NoMemo
  /\ radarContacts = <<>>
  /\ rendered = <<>>
  /\ appStatus = "unmounted"
  /\ themeName = "eliteClassic"
  /\ contacts = <<>>
  /\ contactsRef = "none"
  /\ interval = "none"
  /\ ticks = 0
  /\ heap = [demoContacts |-> demoContacts, prev |-> <<>>]
  /\ appProps \in AppPropsGiven
  /\ intervalsStarted = 0

NextApp == MountApp \/ Tick \/ ToggleTheme \/ UnmountApp

SpecApp == InitApp /\ [][NextApp]_vars

\* ------------------------------------------- the transform on bounded inputs
InitTransform ==
  /\ argContact \in
       {Contact("c1", p, "hostile", FALSE) : p \in FinitePositions \cup MalformedPositions}
       \cup {ContactWithoutPosition("c1", "hostile", FALSE)}
  /\ argOptions \in
       {Options(pp, q, m, r, s) : pp \in PlayerPositions, q \in Quaternions,
                                  m \in MaxRanges, r \in RadarRadii, s \in BOOLEAN}
  /\ Exact(argContact, argOptions)
  /\ result = NotCalled
  /\ demoResult = NotCalled
  /\ SceneIdle
  /\ AppAbsent

\* a call of the EliteRadar3D.jsx copy
CallTransform ==
  /\ result = NotCalled
  /\ result' = transformToRadarSpace(argContact, argOptions)
  /\ argContact' = ContactAfterTransform(argContact, argOptions)
  /\ UNCHANGED <<argOptions, demoResult, sceneVars, appVars>>

\* a call of the EliteRadarDemo.jsx copy
CallTransformDemo ==
  /\ demoResult = NotCalled
  /\ demoResult' = transformToRadarSpaceDemo(argContact, argOptions)
  /\ UNCHANGED <<argContact, argOptions, result, sceneVars, appVars>>

NextTransform == CallTransform \/ CallTransformDemo

SpecTransform == InitTransform /\ [][NextTransform]_vars

\* the transform on its bounded inputs and the EliteRadar3D component, each
\* from its own initial states
InitEffects == InitTransform \/ InitApp

NextEffects == NextTransform \/ NextApp

SpecEffects == InitEffects /\ [][NextEffects]_vars

\* ------------------------------------------------------ claims: transform
FiniteVec(v) == \A i \in 1..3 : IsFinite(v[i])

\* maxRange > 0 and radarRadius > 0, both finite
ValidConfig(options) ==
  /\ IsFinite(options.maxRange) /\ Greater(options.maxRange, Zero)
  /\ IsFinite(options.radarRadius) /\ Greater(options.radarRadius, Zero)

\* a finished call of the main copy on finite positions and a valid configuration
ValidCall ==
  /\ result # NotCalled
  /\ argContact.hasPosition /\ FiniteVec(argContact.position)
  /\ FiniteVec(argOptions.playerPosition)
  /\ ValidConfig(argOptions)

\* a finished call of the demo copy on a finite position and a valid configuration
ValidDemoCall ==
  /\ demoResult # NotCalled
  /\ argContact.hasPosition /\ FiniteVec(argContact.position)
  /\ ValidConfig(argOptions)

InUnitInterval(a) == IsFinite(a) /\ LessEq(Zero, a) /\ LessEq(a, One)

Square(a) == Mul(a, a)
NormSquared(v) == Add(Add(Square(v[1]), Square(v[2])), Square(v[3]))

\* x^2 + z^2 of a radar position
HorizontalRadiusSquared(v) == Add(Square(v[1]), Square(v[3]))

\* the Euclidean length of v
Length(v) == MathSqrt(NormSquared(v))

\* the Euclidean distance from the player to the contact, in world axes
WorldDistance == Length(RelativePosition(argContact, argOptions))

\* C1: for finite positions, any quaternion, maxRange > 0 and radarRadius > 0
\* the normalizedDistance returned by either copy is a number in [0, 1]
C1_NormalizedDistanceInUnitInterval ==
  /\ ValidCall => (~result.threw /\ InUnitInterval(result.normalizedDistance))
  /\ ValidDemoCall => (~demoResult.threw /\ InUnitInterval(demoResult.normalizedDistance))

\* C1 witness: a contact beyond maxRange, rotated into the ship's frame, clamped to 1
C1_Witness ==
  /\ ValidCall /\ ValidDemoCall
  /\ argOptions.shipRelative /\ argOptions.playerQuaternion # IdentityQuaternion
  /\ Less(argOptions.maxRange, WorldDistance)
  /\ result.normalizedDistance = One

\* C2: when the player-to-contact distance is >= maxRange the main copy returns
\* normalizedDistance exactly 1, and distance / maxRange when it is smaller
C2_ClampOrRatio ==
  ValidCall =>
    IF LessEq(argOptions.maxRange, WorldDistance)
      THEN result.normalizedDistance = One
      ELSE result.normalizedDistance = Div(WorldDistance, argOptions.maxRange)

\* C2 witness: a rotated contact with non-zero height strictly inside maxRange
C2_Witness ==
  /\ ValidCall
  /\ argOptions.shipRelative /\ argOptions.playerQuaternion # IdentityQuaternion
  /\ argContact.position[2] # Zero
  /\ Less(WorldDistance, argOptions.maxRange)
  /\ result.normalizedDistance = Div(WorldDistance, argOptions.maxRange)
  /\ Less(Zero, result.normalizedDistance)

\* the contact is directly above the player at distance maxRange, in the frame
\* the main copy projects in
DirectlyAbove ==
  /\ ValidCall
  /\ LocalPosition(argContact, argOptions) = <<Zero, argOptions.maxRange, Zero>>

\* the same for the demo copy, which projects contact.position itself
DirectlyAboveDemo ==
  /\ ValidDemoCall
  /\ argContact.position = <<Zero, argOptions.maxRange, Zero>>

HeightAtRange(options) == Mul(options.radarRadius, HeightFactor)

\* C3 as stated: for a contact directly above at distance maxRange both
\* horizontal components of radarPosition are 0 and the vertical component is
\* radarRadius times the height factor
C3_DirectlyAboveAtCentre ==
  /\ DirectlyAbove =>
       result.radarPosition = <<Zero, HeightAtRange(argOptions), Zero>>
  /\ DirectlyAboveDemo =>
       demoResult.radarPosition = <<Zero, HeightAtRange(argOptions), Zero>>

\* C3 amended: for a contact directly above at distance maxRange x is 0, the
\* vertical component is radarRadius times the height factor, and z is
\* radarRadius (azimuth atan2(0, 0) = 0 at horizontal radius 1 * radarRadius)
C3_DirectlyAboveOnRim ==
  /\ DirectlyAbove =>
       result.radarPosition = <<Zero, HeightAtRange(argOptions), argOptions.radarRadius>>
  /\ DirectlyAboveDemo =>
       demoResult.radarPosition = <<Zero, HeightAtRange(argOptions), argOptions.radarRadius>>

\* C3 witness: both copies have projected a contact directly above at maxRange
C3_Witness ==
  /\ DirectlyAbove /\ DirectlyAboveDemo
  /\ result.radarPosition[3] = argOptions.radarRadius
  /\ demoResult.radarPosition[3] = argOptions.radarRadius

InvalidConfig(options) ==
  LessEq(options.maxRange, Zero) \/ LessEq(options.radarRadius, Zero)

\* C5 as stated: with maxRange <= 0 or radarRadius <= 0 the call fails and
\* returns no projected contact
C5_InvalidConfigFails ==
  /\ (result # NotCalled /\ InvalidConfig(argOptions)) => result.threw
  /\ (demoResult # NotCalled /\ InvalidConfig(argOptions)) => demoResult.threw

FiniteOutput(r) == FiniteVec(r.radarPosition) /\ FiniteVec(r.basePosition)

\* a NaN, infinite or missing number among the inputs the main copy reads
NonFiniteInput ==
  \/ ~FiniteVec(argContact.position)
  \/ ~FiniteVec(argOptions.playerPosition)
  \/ ~IsFinite(argOptions.maxRange)
  \/ ~IsFinite(argOptions.radarRadius)

\* C6 as stated: no call returns a radarPosition or basePosition with a NaN or
\* infinite component; a non-finite input produces an error instead
C6_NoNonFiniteOutput ==
  result # NotCalled =>
    /\ ~result.threw => FiniteOutput(result)
    /\ NonFiniteInput => result.threw

\* C10: for every input, basePosition has vertical component exactly 0 and the
\* horizontal components of radarPosition, in both copies
C10_BasePositionOnPlane ==
  /\ (result # NotCalled /\ ~result.threw) =>
       result.basePosition = <<result.radarPosition[1], Zero, result.radarPosition[3]>>
  /\ (demoResult # NotCalled /\ ~demoResult.threw) =>
       demoResult.basePosition =
         <<demoResult.radarPosition[1], Zero, demoResult.radarPosition[3]>>

\* C10 witness: both copies returned a contact whose marker is off the plane
C10_Witness ==
  /\ ValidCall /\ ValidDemoCall
  /\ Less(result.radarPosition[2], Zero)
  /\ Less(Zero, demoResult.radarPosition[2])
  /\ result.basePosition[2] = Zero /\ demoResult.basePosition[2] = Zero

\* the fields of a returned record that the projection computes
Projection(r) ==
  [n \in {"radarPosition", "basePosition", "normalizedDistance", "isAbove"} \cap DOMAIN r
     |-> r[n]]

\* the main copy has returned
Returned3D == result # NotCalled /\ ~result.threw

\* the position the main copy projects: relative to the player, in the ship's
\* axes when shipRelative is set
ProjectedFrom == LocalPosition(argContact, argOptions)

\* C12: for every valid input the horizontal length of radarPosition is
\* normalizedDistance * radarRadius: x^2 + z^2 = (normalizedDistance * radarRadius)^2
\* with normalizedDistance * radarRadius >= 0
C12_HorizontalLengthIsScaledDistance ==
  /\ ValidCall =>
       /\ HorizontalRadiusSquared(result.radarPosition)
            = Square(Mul(result.normalizedDistance, argOptions.radarRadius))
       /\ LessEq(Zero, Mul(result.normalizedDistance, argOptions.radarRadius))
  /\ ValidDemoCall =>
       /\ HorizontalRadiusSquared(demoResult.radarPosition)
            = Square(Mul(demoResult.normalizedDistance, argOptions.radarRadius))
       /\ LessEq(Zero, Mul(demoResult.normalizedDistance, argOptions.radarRadius))

\* C12 witness: a contact strictly inside maxRange with an elevation that is
\* neither 0 nor a right angle
C12_Witness ==
  /\ ValidCall
  /\ ProjectedFrom[2] # Zero
  /\ Less(Zero, result.normalizedDistance) /\ Less(result.normalizedDistance, One)
  /\ Less(Zero, HorizontalRadiusSquared(result.radarPosition))
  /\ HorizontalRadiusSquared(result.radarPosition)
       = Square(Mul(result.normalizedDistance, argOptions.radarRadius))

\* maxRange > 0 and a finite radarRadius
PositiveRange(options) ==
  /\ IsFinite(options.maxRange) /\ Greater(options.maxRange, Zero)
  /\ IsFinite(options.radarRadius)

Origin == <<Zero, Zero, Zero>>

\* the centre of the radar with normalizedDistance 0
AtCentre(r) ==
  /\ ~r.threw
  /\ r.normalizedDistance = Zero
  /\ r.radarPosition = Origin
  /\ r.basePosition = Origin

\* C13: when the contact's position equals the player's position and
\* maxRange > 0, normalizedDistance is 0 and radarPosition and basePosition are
\* [0, 0, 0] (the demo copy has the player at the origin)
C13_AtPlayerIsCentre ==
  /\ ( /\ result # NotCalled
       /\ argContact.hasPosition /\ FiniteVec(argContact.position)
       /\ argContact.position = argOptions.playerPosition
       /\ PositiveRange(argOptions) ) => AtCentre(result)
  /\ ( /\ demoResult # NotCalled
       /\ argContact.hasPosition /\ argContact.position = Origin
       /\ PositiveRange(argOptions) ) => AtCentre(demoResult)

\* C13 witness: a contact at the position of a player away from the origin,
\* with a rotated ship
C13_Witness ==
  /\ result # NotCalled
  /\ argContact.hasPosition /\ argContact.position = argOptions.playerPosition
  /\ argContact.position # Origin /\ FiniteVec(argContact.position)
  /\ argOptions.shipRelative /\ argOptions.playerQuaternion # IdentityQuaternion
  /\ PositiveRange(argOptions)
  /\ result.radarPosition = Origin

\* a contact at [0, 0, -maxRange], the player at the origin and no rotation
StraightAhead ==
  /\ ValidCall
  /\ argContact.position = <<Zero, Zero, Neg(argOptions.maxRange)>>
  /\ argOptions.playerPosition = Origin
  /\ (~argOptions.shipRelative \/ argOptions.playerQuaternion = IdentityQuaternion)

\* C14 as stated: for a contact at [0, 0, -maxRange], the player at the origin
\* and no rotation, the azimuth and the elevation are 0, normalizedDistance is 1
\* and radarPosition has x = 0, y = 0 and |z| = radarRadius
C14_AheadAzimuthZero ==
  StraightAhead =>
    /\ Theta(ProjectedFrom) = Angle(Zero, One)
    /\ Phi(ProjectedFrom) = Angle(Zero, One)
    /\ result.normalizedDistance = One
    /\ result.radarPosition[1] = Zero
    /\ result.radarPosition[2] = Zero
    /\ Square(result.radarPosition[3]) = Square(argOptions.radarRadius)

\* C14 amended: for a contact at [0, 0, -maxRange], the player at the origin
\* and no rotation, the azimuth is pi (sine 0, cosine -1), the elevation is 0,
\* normalizedDistance is 1 and radarPosition is [0, 0, -radarRadius]
C14_AheadAzimuthPi ==
  StraightAhead =>
    /\ Theta(ProjectedFrom) = Angle(Zero, Neg(One))
    /\ Phi(ProjectedFrom) = Angle(Zero, One)
    /\ result.normalizedDistance = One
    /\ result.radarPosition = <<Zero, Zero, Neg(argOptions.radarRadius)>>

\* C14 witness: such a contact has been projected, onto the rim at -z
C14_Witness ==
  /\ StraightAhead
  /\ argOptions.shipRelative
  /\ result.radarPosition[3] = Neg(argOptions.radarRadius)
  /\ result.basePosition[3] = Neg(argOptions.radarRadius)

\* the vectors added to both positions
Translations == {Vec(1, 0, 0), Vec(-2, 3, 1), Vec(0, 0, -3), Vec(0, 4, 0)}

VecAdd(v, t) == <<Add(v[1], t[1]), Add(v[2], t[2]), Add(v[3], t[3])>>

TranslatedContact(t) == [argContact EXCEPT !.position = VecAdd(@, t)]
TranslatedOptions(t) == [argOptions EXCEPT !.playerPosition = VecAdd(@, t)]

\* the contact and the player moved by t are inputs of the model as well
TranslationInModel(t) == Exact(TranslatedContact(t), TranslatedOptions(t))

\* the call with t added to the contact's and to the player's position
TranslatedCall(t) == transformToRadarSpace(TranslatedContact(t), TranslatedOptions(t))

\* the options object without a playerPosition
WithoutPlayerPosition(options) ==
  [n \in DOMAIN options \ {"playerPosition"} |-> options[n]]

\* C15: adding the same vector to the contact's position and to playerPosition
\* leaves radarPosition, basePosition, normalizedDistance and isAbove as they
\* are, and a call without playerPosition returns what playerPosition
\* [0, 0, 0] returns
C15_ProjectsTheDifference ==
  Returned3D =>
    /\ \A t \in Translations :
         TranslationInModel(t) => Projection(TranslatedCall(t)) = Projection(result)
    /\ argOptions.playerPosition = Origin =>
         Projection(transformToRadarSpace(argContact, WithoutPlayerPosition(argOptions)))
           = Projection(result)

\* C15 witness: a projected contact with a player away from the origin, whose
\* result differs from that of the contact's position alone
C15_Witness ==
  /\ ValidCall
  /\ argOptions.playerPosition # Origin
  /\ Less(Zero, result.normalizedDistance)
  /\ \E t \in Translations :
       /\ TranslationInModel(t)
       /\ argContact.position[2] # Zero /\ t[2] # Zero
       /\ Projection(TranslatedCall(t)) = Projection(result)
  /\ Projection(transformToRadarSpace(argContact, WithoutPlayerPosition(argOptions)))
       # Projection(result)

\* the call with playerQuaternion replaced by q
CallWithQuaternion(q) ==
  transformToRadarSpace(argContact, [argOptions EXCEPT !.playerQuaternion = q])

\* C16: with shipRelative false, calls that differ only in playerQuaternion
\* return equal radarPosition, basePosition, normalizedDistance and isAbove
C16_WorldAxesIgnoreQuaternion ==
  (Returned3D /\ ~argOptions.shipRelative) =>
    \A q \in Quaternions \cup {<<NaN, Zero, Zero, One>>} :
      Projection(CallWithQuaternion(q)) = Projection(result)

\* C16 witness: a call with shipRelative false and a quaternion that changes
\* the result once shipRelative is true
C16_Witness ==
  /\ ValidCall
  /\ ~argOptions.shipRelative
  /\ argOptions.playerQuaternion # IdentityQuaternion
  /\ Projection(CallWithQuaternion(IdentityQuaternion)) = Projection(result)
  /\ Projection(transformToRadarSpace(argContact, [argOptions EXCEPT !.shipRelative = TRUE]))
       # Projection(result)

\* C17 as stated: the result of either copy carries isAbove, which is true
\* exactly when the vertical component of the projected relative position is
\* strictly greater than 0
C17_IsAboveInEveryCopy ==
  /\ ValidCall =>
       /\ "isAbove" \in DOMAIN result
       /\ result.isAbove = Greater(ProjectedFrom[2], Zero)
  /\ ValidDemoCall =>
       /\ "isAbove" \in DOMAIN demoResult
       /\ demoResult.isAbove = Greater(argContact.position[2], Zero)

\* the stalk of the RadarContact element drawn for the returned contact
Stalk == RadarContact(result, themes.eliteClassic).stalk

\* how far the stalk rises from its start on the plane to its end at the marker
StalkRise == Sub(Stalk.end[2], Stalk.start[2])

\* a and b are both > 0, both < 0 or both 0
SameSign(a, b) ==
  /\ Less(Zero, a) <=> Less(Zero, b)
  /\ Less(a, Zero) <=> Less(b, Zero)

\* C18: for every valid input the vertical component of radarPosition is > 0
\* when the contact is higher than the player, < 0 when it is lower and 0 when
\* it is on the player's plane, and the stalk rises or falls accordingly
C18_VerticalSignIsHeightSign ==
  ValidCall =>
    /\ SameSign(result.radarPosition[2], ProjectedFrom[2])
    /\ SameSign(StalkRise, ProjectedFrom[2])
    /\ Stalk.start[2] = Zero

\* C18 witness: a contact lower than the player whose stalk points down
C18_Witness ==
  /\ ValidCall
  /\ Less(ProjectedFrom[2], Zero)
  /\ Less(result.radarPosition[2], Zero)
  /\ Less(StalkRise, Zero)

\* the quaternion of the same orientation after one more full turn
Negated(q) == <<Neg(q[1]), Neg(q[2]), Neg(q[3]), Neg(q[4])>>

\* C21: with shipRelative true, the call with playerQuaternion q replaced by -q
\* returns the same radarPosition, basePosition, normalizedDistance and isAbove
C21_FullTurnChangesNothing ==
  (Returned3D /\ argOptions.shipRelative) =>
    Projection(CallWithQuaternion(Negated(argOptions.playerQuaternion))) = Projection(result)

\* C21 witness: a ship turned away from the world axes, whose rotation changes
\* the result, and the same result with the quaternion negated
C21_Witness ==
  /\ ValidCall
  /\ argOptions.shipRelative
  /\ argOptions.playerQuaternion[4] # Zero
  /\ Projection(CallWithQuaternion(IdentityQuaternion)) # Projection(result)
  /\ Projection(CallWithQuaternion(Negated(argOptions.playerQuaternion))) = Projection(result)

\* the option heightScale set to 0
Flattening(options) == [heightScale |-> Zero] @@ options

\* C22 as stated: with heightScale = 0 in the options the vertical component of
\* radarPosition is 0 for every input
C22_HeightScaleZeroFlattens ==
  ValidCall =>
    transformToRadarSpace(argContact, Flattening(argOptions)).radarPosition[2] = Zero

\* the results of the two copies agree on the fields both return
CopiesAgree ==
  /\ demoResult.radarPosition = result.radarPosition
  /\ demoResult.basePosition = result.basePosition
  /\ demoResult.normalizedDistance = result.normalizedDistance

\* C24: for a finite position, maxRange > 0 and radarRadius > 0 the demo copy
\* returns the radarPosition, basePosition and normalizedDistance of the main
\* copy called with playerPosition [0, 0, 0] and shipRelative false or the
\* identity quaternion
C24_CopiesAgree ==
  ( /\ ValidCall /\ ValidDemoCall
    /\ argOptions.playerPosition = Origin
    /\ (~argOptions.shipRelative \/ argOptions.playerQuaternion = IdentityQuaternion) ) =>
    CopiesAgree

\* C24 witness: both copies have projected an elevated contact inside maxRange
\* with radarRadius 2, the main copy through the identity rotation
C24_Witness ==
  /\ ValidCall /\ ValidDemoCall
  /\ argOptions.playerPosition = Origin
  /\ argOptions.shipRelative /\ argOptions.playerQuaternion = IdentityQuaternion
  /\ argOptions.radarRadius = Int2Num(2)
  /\ Less(Zero, result.radarPosition[2]) /\ Less(result.normalizedDistance, One)
  /\ result.radarPosition[3] # Zero
  /\ CopiesAgree

\* ------------------------------------------------------- claims: RadarScene
\* a contact without a position, or with a NaN, infinite or missing component
Malformed(c) == ~c.hasPosition \/ ~FiniteVec(c.position)

MalformedIndices(cs) == {i \in 1..Len(cs) : Malformed(cs[i])}

\* the result for contact c projected alone with the options of the latest render
Alone(c) == TransformOf(file, c, SceneOptions(sceneProps))

\* C7 as stated: when exactly one contact of the list is malformed, every other
\* contact is still projected, with the result it has without the malformed one
C7_MalformedContactIsolated ==
  (sceneStatus # "unmounted" /\ Cardinality(MalformedIndices(sceneProps.contacts)) = 1) =>
    /\ sceneStatus = "rendered"
    /\ \A i \in 1..Len(sceneProps.contacts) :
         ~Malformed(sceneProps.contacts[i]) =>
           \E j \in 1..Len(radarContacts) : radarContacts[j] = Alone(sceneProps.contacts[i])

\* C8: radarContacts has the length and order of contacts and its i-th element
\* is transformToRadarSpace applied to the i-th contact alone with the options
\* of the current props
C8_BatchIsPerElement ==
  sceneStatus = "rendered" =>
    /\ Len(radarContacts) = Len(sceneProps.contacts)
    /\ \A i \in 1..Len(radarContacts) : radarContacts[i] = Alone(sceneProps.contacts[i])

\* C8 witness: a rendered scene of two contacts, the first of which has a
\* result that depends on maxRange
C8_Witness ==
  /\ sceneStatus = "rendered"
  /\ Len(sceneProps.contacts) = 2
  /\ ~Malformed(sceneProps.contacts[1])
  /\ sceneProps.maxRange = Int2Num(4)
  /\ radarContacts[1] = Alone(sceneProps.contacts[1])
  /\ radarContacts[1] # TransformOf(file, sceneProps.contacts[1],
                          SceneOptions([sceneProps EXCEPT !.maxRange = Int2Num(2)]))

\* the distance the scene's transform measures for contact c: from the player
\* in EliteRadar3D.jsx, from the origin in EliteRadarDemo.jsx
SceneDistance(c) ==
  IF file = MainFile THEN Length(RelativePosition(c, SceneOptions(sceneProps)))
                     ELSE Length(c.position)

\* C9: every contact, whatever its distance, gets exactly one projected contact
\* and exactly one RadarContact element, placed at horizontal radius
\* radarRadius when its distance is at least maxRange
C9_NeverDropped ==
  sceneStatus = "rendered" =>
    /\ Len(radarContacts) = Len(sceneProps.contacts)
    /\ Len(rendered) = Len(sceneProps.contacts)
    /\ \A i \in 1..Len(sceneProps.contacts) :
         LET c == sceneProps.contacts[i]
         IN  /\ Cardinality({j \in 1..Len(radarContacts) : radarContacts[j].id = c.id}) = 1
             /\ Cardinality({j \in 1..Len(rendered) : rendered[j].key = c.id}) = 1
             /\ (~Malformed(c) /\ LessEq(sceneProps.maxRange, SceneDistance(c))) =>
                  \E j \in 1..Len(rendered) :
                    /\ rendered[j].key = c.id
                    /\ HorizontalRadiusSquared(rendered[j].marker.position)
                         = Square(sceneProps.radarRadius)
                    /\ HorizontalRadiusSquared(rendered[j].basePoint.position)
                         = Square(sceneProps.radarRadius)
                    /\ rendered[j].stalk.end = rendered[j].marker.position

\* C9 witness: a rendered scene with one contact strictly beyond maxRange and
\* one strictly inside
C9_Witness ==
  /\ sceneStatus = "rendered"
  /\ Len(rendered) = 2
  /\ \E i, j \in 1..2 :
       /\ ~Malformed(sceneProps.contacts[i]) /\ ~Malformed(sceneProps.contacts[j])
       /\ Less(sceneProps.maxRange, SceneDistance(sceneProps.contacts[i]))
       /\ Less(SceneDistance(sceneProps.contacts[j]), sceneProps.maxRange)
       /\ rendered[i].key = sceneProps.contacts[i].id
       /\ rendered[j].key = sceneProps.contacts[j].id

\* other identities a contact at the same position could have
Identities ==
  { [id |-> "x-9", type |-> "neutral", selected |-> TRUE],
    [id |-> "", type |-> "unknown", selected |-> FALSE] }

\* contact c with its id, type and selected flag replaced by those of o
Relabelled(c, o) ==
  [c EXCEPT !.id = o.id, !.type = o.type, !.selected = o.selected]

\* C19: a contact at the same position with another id, type and selected flag
\* gets the same radarPosition, basePosition, normalizedDistance and isAbove,
\* and every projected contact carries the id, type and selected flag of the
\* contact it was made from
C19_LabelsCarriedNotRead ==
  sceneStatus = "rendered" =>
    \A i \in 1..Len(radarContacts) :
      /\ {"id", "type", "selected"} \subseteq DOMAIN radarContacts[i]
      /\ radarContacts[i].id = sceneProps.contacts[i].id
      /\ radarContacts[i].type = sceneProps.contacts[i].type
      /\ radarContacts[i].selected = sceneProps.contacts[i].selected
      /\ \A o \in Identities :
           Projection(Alone(Relabelled(sceneProps.contacts[i], o)))
             = Projection(radarContacts[i])

\* C19 witness: the main file's scene has projected a selected station and an
\* unselected contact of another type, both off the centre
C19_Witness ==
  /\ sceneStatus = "rendered" /\ file = MainFile
  /\ Len(radarContacts) = 2
  /\ radarContacts[1].type = "station" /\ radarContacts[1].selected
  /\ radarContacts[2].type # "station" /\ ~radarContacts[2].selected
  /\ \A i \in 1..2 : Less(Zero, radarContacts[i].normalizedDistance)
  /\ "isAbove" \in DOMAIN Projection(radarContacts[1])

\* the map of the transform over the current contacts with the current props
FreshProjection == MapTransform(file, sceneProps.contacts, SceneOptions(sceneProps)).value

\* C25: after every render the radarContacts used for rendering, and the value
\* held by the useMemo cell, are the map of transformToRadarSpace over the
\* current contacts with the current configuration
C25_MemoNeverStale ==
  sceneStatus = "rendered" =>
    /\ radarContacts = FreshProjection
    /\ memo.value = FreshProjection
    /\ \A i \in 1..Len(rendered) :
         rendered[i].marker.position = FreshProjection[i].radarPosition

\* C25 witness: a scene rendered again with a moved player in world axes, a
\* smaller range and a larger radius than the defaults of the first render
C25_Witness ==
  /\ sceneStatus = "rendered" /\ file = MainFile
  /\ Len(sceneProps.contacts) = 2
  /\ sceneProps.playerPosition # Vec(0, 0, 0)
  /\ ~sceneProps.shipRelative
  /\ sceneProps.maxRange = Int2Num(2) /\ sceneProps.radarRadius = Int2Num(2)
  /\ radarContacts = FreshProjection
  /\ \E i \in 1..2 : Less(Zero, radarContacts[i].normalizedDistance)

\* the theme the scene draws with: the named one, or eliteClassic
ThemeInUse ==
  IF sceneProps.themeName \in DOMAIN themes THEN themes[sceneProps.themeName]
                                            ELSE themes.eliteClassic

\* element e is drawn in colour col with a stalk, a base point and a marker
\* that has a shape
DrawnIn(e, col) ==
  /\ {"stalk", "basePoint", "marker"} \subseteq DOMAIN e
  /\ e.stalk.color = col /\ e.basePoint.color = col /\ e.marker.color = col
  /\ e.geometry # "none"

\* C29 as stated: in a rendered scene a contact whose type is no key of
\* theme.contacts is drawn in theme.contacts.default, with a stalk, a base
\* point and a marker, and the scene of EliteRadar3D.jsx given a themeName that
\* is no key of themes renders with the eliteClassic theme
C29_StylingFallbacks ==
  /\ (sceneStatus # "unmounted" /\ file = MainFile /\ sceneProps.themeName \notin DOMAIN themes
       /\ \A i \in 1..Len(sceneProps.contacts) : sceneProps.contacts[i].hasPosition) =>
       sceneStatus = "rendered"
  /\ sceneStatus = "rendered" =>
       \A i \in 1..Len(rendered) :
         radarContacts[i].type \notin DOMAIN ThemeInUse.contacts =>
           DrawnIn(rendered[i], ThemeInUse.contacts.default)

C23_PropsAreDisplayed ==
  (appStatus = "mounted" /\ appProps.given) =>
    /\ SceneElement.contacts = appProps.objects
    /\ SceneElement.maxRange = appProps.range

\* the largest step of a tick along x, y and z
MaxStep ==
  IF file = MainFile THEN <<Int2Num(50), Int2Num(25), Int2Num(50)>>
                     ELSE <<Int2Num(40), Int2Num(20), Int2Num(40)>>

\* a and b are at most d apart
Within(a, b, d) == LessEq(Sub(a, b), d) /\ LessEq(Neg(d), Sub(a, b))

\* C26: while the component is mounted the contacts list has the length, ids,
\* order, types and selected flags of demoContacts, and after a tick every
\* position is within 50, 25, 50 (40, 20, 40 in the demo file) of the position
\* before it
C26_TickMovesPositionsOnly ==
  appStatus = "mounted" =>
    /\ Len(contacts) = Len(demoContacts)
    /\ \A i \in 1..Len(contacts) :
         /\ DOMAIN contacts[i] = DOMAIN demoContacts[i]
         /\ contacts[i].id = demoContacts[i].id
         /\ contacts[i].type = demoContacts[i].type
         /\ contacts[i].selected = demoContacts[i].selected
         /\ contactsRef = "mapped" =>
              \A c \in 1..3 :
                Within(contacts[i].position[c], heap.prev[i].position[c], MaxStep[c])

\* C26 witness: after the last tick of a run some contact has moved by the
\* full 50 along x and another by less
C26_Witness ==
  /\ appStatus = "mounted" /\ file = MainFile
  /\ ticks = MaxTicks /\ contactsRef = "mapped"
  /\ \E i, j \in 1..Len(contacts) :
       /\ Sub(contacts[i].position[1], heap.prev[i].position[1]) = Int2Num(-50)
       /\ Sub(contacts[j].position[1], heap.prev[j].position[1]) = Int2Num(49)
  /\ contacts[7].selected /\ contacts[7].id = "station-1"

\* the other of the two theme names
OtherTheme(t) == IF t = "eliteDangerous" THEN "eliteClassic" ELSE "eliteDangerous"

\* a step of the mounted component that is neither a tick nor an unmount: a
\* click of the theme button
Click == appStatus = "mounted" /\ appStatus' = "mounted" /\ ticks' = ticks

\* C27: themeName is always a key of themes, it is 'eliteClassic' after the
\* mount, a click switches it to the other name (so two clicks restore it) and
\* leaves the contacts list as it is
C27_ThemeToggles ==
  /\ [](appStatus = "mounted" => themeName \in {"eliteClassic", "eliteDangerous"} \cap DOMAIN themes)
  /\ [][ /\ (appStatus = "unmounted" /\ appStatus' = "mounted") => themeName' = "eliteClassic"
         /\ Click => /\ themeName' = OtherTheme(themeName)
                     /\ OtherTheme(themeName') = themeName
                     /\ contacts' = contacts /\ contactsRef' = contactsRef
     ]_vars

\* C27 witness: the second theme is selected after a tick has moved the contacts
C27_Witness ==
  /\ appStatus = "mounted"
  /\ themeName = "eliteDangerous"
  /\ ticks > 0 /\ contactsRef = "mapped"
  /\ Len(contacts) = Len(demoContacts)

\* C28: a mounted component has exactly one running interval, started by the
\* mount and by no later render, an unmounted one has none, and the interval
\* callback runs for a mounted component only
C28_OneIntervalWhileMounted ==
  /\ [](appStatus = "mounted" => (interval = "running" /\ intervalsStarted = 1))
  /\ [](appStatus = "unmounted" => (interval # "running" /\ intervalsStarted = 0))
  /\ [][ /\ ticks' # ticks => (appStatus = "mounted" /\ appStatus' = "mounted")
         /\ (appStatus = "mounted" /\ appStatus' = "mounted") =>
              intervalsStarted' = intervalsStarted
     ]_vars

\* C28 witness: the component has been unmounted after a tick, with ticks left
\* in the run, and its interval is cleared
C28_Witness ==
  /\ appStatus = "unmounted"
  /\ interval = "cleared"
  /\ ticks > 0 /\ ticks < MaxTicks
  /\ contacts = <<>>

====
